---- MODULE Spec2Model ----
(***************************************************************************)
(* Room-scoped real-time synchronisation server (server/socket-server.ts): *)
(* the registry of active rooms, the per-connection binding kept in the    *)
(* closure of each socket, and the events each handler emits.              *)
(*                                                                         *)
(* Every handler is an operator from the world it starts in to the world   *)
(* it leaves: the registry, the bindings, and the events it delivered to   *)
(* each socket, in order.  The actions commit a handler's world; the       *)
(* events a handler delivers are read off its result.                      *)
(***************************************************************************)
EXTENDS Integers, Sequences, FiniteSets, TLC

\* ---------------------------------------------------------------- domains
\* Socket ids handed out by socket.io; every connection gets its own.
Conns == {"s1", "s2"}

\* roomId / userId values a join_room payload can carry.  "" stands for the
\* falsy values of JavaScript (empty string, missing field).
RoomIds == {"r1", "r2"}
UserIds == {"", "u1", "u2"}

\* Position payloads and symbol labels a client can send.  The registry
\* specification tells a reported position from none and a stored symbol from
\* none; the content of symbols varies in the symbol specification below.
Positions == {[coordinates |-> "p1"]}
Labels == {"a"}

\* The symbolData of a symbol_create and the updates of a symbol_update, as
\* the fields the payload carries.
SymbolData == {[label |-> l] : l \in Labels}
Updates == {[label |-> l] : l \in Labels}

\* The payloads of the symbol specification: a symbol_create that leaves colour
\* and rotation out and one that supplies them, and partial updates, one of
\* which carries values no schema admits and one an update timestamp of its
\* own.  A colour is the sequence of its characters.
DefaultColor == <<"#", "F", "F", "0", "0", "0", "0">>
Green == <<"#", "0", "0", "f", "f", "0", "0">>
NamedColor == <<"r", "e", "d">>
DefaultRotation == 0
StaleTime == 0
SymRoomIds == {"r1"}
SymUserIds == {"u1", "u2"}
SymSymbolData ==
    {[label |-> "a"],
     [label |-> "a", color |-> Green, rotation |-> 90,
      coordinates |-> [latitude |-> 45, longitude |-> 90]]}
SymUpdates ==
    {[label |-> "b"],
     [rotation |-> 400, color |-> NamedColor,
      coordinates |-> [latitude |-> 91, longitude |-> 181]],
     [label |-> "b", updatedAt |-> StaleTime]}

\* The inputs of the delivery-order specification.
OrdUserIds == {"", "u1"}
OrdPositions == {[coordinates |-> "p1"]}
OrdSymbolData == {[label |-> "a"]}
OrdUpdates == {[label |-> "b"]}

\* Number of symbol ids the id generator hands out before the model stops
\* creating symbols.
MaxSymbols == 1

\* Number of inbound events whose deliveries are recorded, and the last
\* reading of the clock, in the specifications that record or tick.
MaxEvents == 4
MaxTime == 1

SymbolIds == 1..MaxSymbols

NULL == "null"

\* A roomId or userId of a join_room payload that JavaScript cannot convert to
\* a string, such as the object {toString: 1}.
Unprintable == "unprintable"
NoPos == [coordinates |-> NULL]

\* JavaScript truthiness of a string | null value.
Truthy(x) == x # NULL /\ x # ""

\* The legacy relay server: no socket has connected, both maps are empty.
\* roomOrder is the insertion order of the roomConnections Map, joined the
\* socket.io rooms each socket is in, session the userId each socket last
\* joined as.
RelayUsers == {"u1", "u2"}
InitialRelay ==
    [status |-> [s \in Conns |-> "idle"],
     joined |-> [s \in Conns |-> {}],
     session |-> [s \in Conns |-> NULL],
     roomConnections |-> [r \in {} |-> {}],
     roomOrder |-> <<>>,
     userRooms |-> [u \in {} |-> NULL]]

\* useWebSocket before its mount effect has run: useState / useRef initial
\* values, and no socket created yet.
MaxSockets == 2
SocketIds == 1..MaxSockets
maxReconnectAttempts == 5
InitialWS ==
    [socketRef |-> <<>>,
     sockets |-> [i \in SocketIds |-> "none"],
     reconnectAttempts |-> 0,
     state |-> [connected |-> FALSE, connecting |-> FALSE, error |-> <<>>]]

\* One room with its owner as only member, and no joinRoom call in flight.
MaxMembers == 2
DbUsers == {"u1", "u2", "u3"}
InitialDB ==
    [room_members |-> {"owner"},
     pc |-> [u \in DbUsers |-> "idle"]]

\* The client hooks.  A number | null value is a sequence of at most one
\* number: <<>> is null (or undefined), <<n>> is n.
\* Date.now() when the hook is mounted, in units of the throttle intervals
\* below; it exceeds every one of them by far.
Epoch == 10
UpdateIntervals == {0, 2, 3}
MaxElapsed == 4
\* event.alpha, in whole degrees.
MaxAlpha == 360
Alphas == 0..MaxAlpha
\* GeolocationPosition.coords: heading is null when the device has none and
\* 0 when it points north.
Fixes ==
    {[latitude |-> 51, longitude |-> 0, accuracy |-> 10, heading |-> h] :
        h \in {<<>>, <<0>>, <<180>>}}
GeoErrors == {"PERMISSION_DENIED"}
\* useState / useRef initial values of useGPS.
InitialGPS ==
    [position |-> <<>>, error |-> <<>>, loading |-> FALSE]
Unmounted ==
    [updateInterval |-> <<>>, geolocation |-> FALSE, state |-> InitialGPS,
     watchIdRef |-> <<>>, lastUpdateRef |-> 0]

VARIABLES
    activeRooms,   \* Map<roomId, RoomData>
    conn,          \* socket state: "idle" (not yet connected), "open", "closed"
    cur,           \* per-socket closure: currentRoomId / currentUserId
    nextId,        \* next symbol id the generator yields
    destroyed,     \* ids of the symbols discarded together with their room
    now,           \* the reading of the clock (new Date())
    recording,     \* whether deliveries are recorded in inbox
    seq,           \* number of inbound events processed while recording
    inbox,         \* per socket: the events delivered to it so far, in order
    gps,           \* one useGPS instance: its options, state and refs
    dateNow,       \* the client's Date.now()
    orientation,   \* useDeviceOrientation: the orientation state
    relay,         \* the legacy relay server (socket-server.js)
    ws,            \* one useWebSocket instance and the sockets it created
    db             \* room_members rows and the RoomService.joinRoom calls in flight

vars == <<activeRooms, conn, cur, nextId, destroyed, now, recording, seq, inbox,
          gps, dateNow, orientation, relay, ws, db>>

\* What the client hooks own, left alone by the server.
hookVars == <<gps, dateNow, orientation>>

\* What the legacy relay, the useWebSocket hook and the room service own.
others == <<relay, ws, db>>

\* ---------------------------------------------------------------- helpers
EmptyMap == [x \in {} |-> NULL]

Remove(f, k) == [x \in DOMAIN f \ {k} |-> f[x]]

\* Map.set that keeps an entry already stored under the key.
PutIfAbsent(f, k, v) == IF k \in DOMAIN f THEN f ELSE (k :> v) @@ f

Put(f, k, v) == (k :> v) @@ Remove(f, k)

Rep(e, n) == [i \in 1..n |-> e]

NoOut == [c \in Conns |-> <<>>]

Event(ev, roomId, src, body) == [ev |-> ev, room |-> roomId, src |-> src, body |-> body]

\* An event as it leaves the server: n is its place among the emit calls of
\* the handler run.
Stamp(e, n) == [ev |-> e.ev, room |-> e.room, src |-> e.src, body |-> e.body, n |-> n]

Unbound == [room |-> NULL, user |-> NULL]

\* The world a handler starts in: the current state, nothing delivered yet.
Here ==
    [rooms |-> activeRooms, conn |-> conn, cur |-> cur, nextId |-> nextId,
     destroyed |-> destroyed, now |-> now, out |-> NoOut, emits |-> 0]

\* ---------------------------------------------------------------- registry
getRoomData(w, roomId) ==
    IF roomId \in DOMAIN w.rooms
    THEN w
    ELSE [w EXCEPT !.rooms = Put(@, roomId, [members |-> EmptyMap, symbols |-> EmptyMap])]

cleanupRoom(w, roomId) ==
    IF roomId \in DOMAIN w.rooms /\ DOMAIN w.rooms[roomId].members = {}
    THEN [w EXCEPT !.rooms = Remove(@, roomId),
                   !.destroyed = @ \cup DOMAIN w.rooms[roomId].symbols]
    ELSE w

\* socket.emit: one event to one socket (dropped when the socket is gone).
socketEmit(w, c, e) ==
    IF w.conn[c] = "open"
    THEN [w EXCEPT !.out[c] = Append(@, Stamp(e, w.emits + 1)), !.emits = @ + 1]
    ELSE [w EXCEPT !.emits = @ + 1]

\* Broadcast that forgets to skip the excluded socket.
broadcastToAll(w, roomId, e, excludeSocketId) ==
    IF roomId \notin DOMAIN w.rooms
    THEN w
    ELSE LET members == w.rooms[roomId].members
             hits(c) == Cardinality({u \in DOMAIN members : members[u].socketId = c})
         IN [w EXCEPT !.out = [c \in Conns |->
                IF w.conn[c] = "open"
                THEN @[c] \o Rep(Stamp(e, w.emits + 1), hits(c)) ELSE @[c]],
                      !.emits = @ + 1]

\* A broadcast whose events overtake what the handler has emitted so far.
broadcastToRoomFirst(w, roomId, e, excludeSocketId) ==
    IF roomId \notin DOMAIN w.rooms
    THEN w
    ELSE LET members == w.rooms[roomId].members
             hits(c) == Cardinality({u \in DOMAIN members :
                                       /\ members[u].socketId = c
                                       /\ members[u].socketId # excludeSocketId})
         IN [w EXCEPT !.out = [c \in Conns |->
                IF w.conn[c] = "open"
                THEN Rep(Stamp(e, w.emits + 1), hits(c)) \o @[c] ELSE @[c]],
                      !.emits = @ + 1]

\* A broadcast that gives up as a whole when one recipient's socket is gone.
broadcastToRoomAbort(w, roomId, e, excludeSocketId) ==
    IF roomId \notin DOMAIN w.rooms
    THEN w
    ELSE LET members == w.rooms[roomId].members
             targets == {u \in DOMAIN members : members[u].socketId # excludeSocketId}
             hits(c) == Cardinality({u \in targets : members[u].socketId = c})
         IN IF \E u \in targets : w.conn[members[u].socketId] # "open"
            THEN [w EXCEPT !.emits = @ + 1]
            ELSE [w EXCEPT !.out = [c \in Conns |-> @[c] \o Rep(Stamp(e, w.emits + 1), hits(c))],
                           !.emits = @ + 1]

\* io.to(member.socketId).emit for every member record but the excluded one.
broadcastToRoom(w, roomId, e, excludeSocketId) ==
    IF roomId \notin DOMAIN w.rooms
    THEN w
    ELSE LET members == w.rooms[roomId].members
             hits(c) == Cardinality({u \in DOMAIN members :
                                       /\ members[u].socketId = c
                                       /\ members[u].socketId # excludeSocketId})
         IN [w EXCEPT !.out = [c \in Conns |->
                IF w.conn[c] = "open"
                THEN @[c] \o Rep(Stamp(e, w.emits + 1), hits(c)) ELSE @[c]],
                      !.emits = @ + 1]

\* leaveRoom without the socketId comparison.
leaveRoomUnguarded(w, roomId, userId, socketId) ==
    IF roomId \notin DOMAIN w.rooms
    THEN w
    ELSE LET room == w.rooms[roomId]
         IN IF userId \in DOMAIN room.members
            THEN LET w1 == [w EXCEPT !.rooms[roomId].members = Remove(@, userId)]
                     w2 == broadcastToRoom(w1, roomId,
                              Event("member_left", roomId, socketId, userId), NULL)
                 IN cleanupRoom(w2, roomId)
            ELSE w

leaveRoom(w, roomId, userId, socketId) ==
    IF roomId \notin DOMAIN w.rooms
    THEN w
    ELSE LET room == w.rooms[roomId]
         IN IF userId \in DOMAIN room.members /\ room.members[userId].socketId = socketId
            THEN LET w1 == [w EXCEPT !.rooms[roomId].members = Remove(@, userId)]
                     w2 == broadcastToRoom(w1, roomId,
                              Event("member_left", roomId, socketId, userId), NULL)
                 IN cleanupRoom(w2, roomId)
            ELSE w

\* The room_state payload built by the join_room handler.
roomState(room) ==
    [members |-> {[userId |-> room.members[u].userId,
                   lastSeen |-> room.members[u].lastSeen,
                   position |-> room.members[u].position] : u \in DOMAIN room.members},
     symbols |-> {room.symbols[i] : i \in DOMAIN room.symbols}]

\* A guard that lets every connection through.
NotInRoomNever(w, c) == FALSE

\* The guard every room-scoped handler starts with.
NotInRoom(w, c) == ~(Truthy(w.cur[c].room) /\ Truthy(w.cur[c].user))

\* ---------------------------------------------------------------- handlers
\* A join_room that acknowledges before it sends the room_state.
joinRoomAckFirst(w, c, roomId, userId) ==
    LET w1 == IF ~NotInRoom(w, c)
              THEN leaveRoom(w, w.cur[c].room, w.cur[c].user, c)
              ELSE w
        w2 == [w1 EXCEPT !.cur[c] = [room |-> roomId, user |-> userId]]
        w3 == getRoomData(w2, roomId)
        w4 == [w3 EXCEPT !.rooms[roomId].members =
                   Put(@, userId, [userId |-> userId, socketId |-> c,
                                   lastSeen |-> w.now, position |-> NoPos])]
        w5 == broadcastToRoom(w4, roomId, Event("member_joined", roomId, c, userId), c)
        w6 == socketEmit(w5, c, Event("join_room_success", roomId, c, userId))
    IN socketEmit(w6, c, Event("room_state", roomId, c, roomState(w6.rooms[roomId])))

\* A join_room that builds the room_state before it stores the joiner.
joinRoomSnapshotFirst(w, c, roomId, userId) ==
    LET w1 == IF ~NotInRoom(w, c)
              THEN leaveRoom(w, w.cur[c].room, w.cur[c].user, c)
              ELSE w
        w2 == [w1 EXCEPT !.cur[c] = [room |-> roomId, user |-> userId]]
        w3 == getRoomData(w2, roomId)
        w4 == [w3 EXCEPT !.rooms[roomId].members =
                   Put(@, userId, [userId |-> userId, socketId |-> c,
                                   lastSeen |-> w.now, position |-> NoPos])]
        w5 == broadcastToRoom(w4, roomId, Event("member_joined", roomId, c, userId), c)
        w6 == socketEmit(w5, c, Event("room_state", roomId, c, roomState(w3.rooms[roomId])))
    IN socketEmit(w6, c, Event("join_room_success", roomId, c, userId))

\* socket.on('join_room').  The first statement of the try block formats
\* roomId and userId into a log line; a value that cannot be converted to a
\* string throws there, before anything is read or written, and the catch
\* branch reports the failure.
joinRoom(w, c, roomId, userId) ==
    IF Unprintable \in {roomId, userId}
    THEN socketEmit(w, c, Event("join_room_error", NULL, c, "Failed to join room"))
    ELSE LET w1 == IF ~NotInRoom(w, c)
                   THEN leaveRoom(w, w.cur[c].room, w.cur[c].user, c)
                   ELSE w
             w2 == [w1 EXCEPT !.cur[c] = [room |-> roomId, user |-> userId]]
             w3 == getRoomData(w2, roomId)
             w4 == [w3 EXCEPT !.rooms[roomId].members =
                        Put(@, userId, [userId |-> userId, socketId |-> c,
                                        lastSeen |-> w.now, position |-> NoPos])]
             w5 == broadcastToRoom(w4, roomId, Event("member_joined", roomId, c, userId), c)
             w6 == socketEmit(w5, c, Event("room_state", roomId, c, roomState(w5.rooms[roomId])))
         IN socketEmit(w6, c, Event("join_room_success", roomId, c, userId))

positionUpdate(w, c, positionData) ==
    IF NotInRoom(w, c)
    THEN socketEmit(w, c, Event("error", NULL, c, "Not in a room"))
    ELSE LET roomId == w.cur[c].room
             userId == w.cur[c].user
             w1 == getRoomData(w, roomId)
         IN IF userId \in DOMAIN w1.rooms[roomId].members
            THEN LET w2 == [w1 EXCEPT !.rooms[roomId].members[userId].position =
                                positionData,
                                      !.rooms[roomId].members[userId].lastSeen = w.now]
                 IN broadcastToRoom(w2, roomId,
                        Event("position_update", roomId, c, positionData), c)
            ELSE w1

symbolCreate(w, c, symbolData) ==
    IF NotInRoom(w, c)
    THEN socketEmit(w, c, Event("error", NULL, c, "Not in a room"))
    ELSE LET roomId == w.cur[c].room
             symbol == [id |-> w.nextId, createdAt |-> w.now, updatedAt |-> w.now]
                         @@ symbolData
             w1 == [w EXCEPT !.nextId = @ + 1]
             w2 == getRoomData(w1, roomId)
             w3 == [w2 EXCEPT !.rooms[roomId].symbols = Put(@, symbol.id, symbol)]
         IN broadcastToRoom(w3, roomId, Event("symbol_created", roomId, c, symbol), NULL)

\* A symbol_update that writes the payload before it looks the symbol up.
symbolUpdateWriteFirst(w, c, id, updates) ==
    IF NotInRoom(w, c)
    THEN socketEmit(w, c, Event("error", NULL, c, "Not in a room"))
    ELSE LET roomId == w.cur[c].room
             w1 == getRoomData(w, roomId)
             symbols == w1.rooms[roomId].symbols
             updatedSymbol == [updatedAt |-> w.now] @@ updates
                                @@ (IF id \in DOMAIN symbols THEN symbols[id] ELSE [id |-> id])
             w2 == [w1 EXCEPT !.rooms[roomId].symbols = Put(@, id, updatedSymbol)]
         IN IF id \notin DOMAIN symbols
            THEN socketEmit(w2, c, Event("error", roomId, c, "Symbol not found"))
            ELSE broadcastToRoom(w2, roomId,
                     Event("symbol_updated", roomId, c, updatedSymbol), NULL)

\* A symbol_update whose payload is spread over the fresh timestamp.
symbolUpdatePayloadLast(w, c, id, updates) ==
    IF NotInRoom(w, c)
    THEN socketEmit(w, c, Event("error", NULL, c, "Not in a room"))
    ELSE LET roomId == w.cur[c].room
             w1 == getRoomData(w, roomId)
             symbols == w1.rooms[roomId].symbols
         IN IF id \notin DOMAIN symbols
            THEN socketEmit(w1, c, Event("error", roomId, c, "Symbol not found"))
            ELSE LET updatedSymbol == updates @@ [updatedAt |-> w.now] @@ symbols[id]
                     w2 == [w1 EXCEPT !.rooms[roomId].symbols = Put(@, id, updatedSymbol)]
                 IN broadcastToRoom(w2, roomId,
                        Event("symbol_updated", roomId, c, updatedSymbol), NULL)

symbolUpdate(w, c, id, updates) ==
    IF NotInRoom(w, c)
    THEN socketEmit(w, c, Event("error", NULL, c, "Not in a room"))
    ELSE LET roomId == w.cur[c].room
             w1 == getRoomData(w, roomId)
             symbols == w1.rooms[roomId].symbols
         IN IF id \notin DOMAIN symbols
            THEN socketEmit(w1, c, Event("error", roomId, c, "Symbol not found"))
            ELSE LET updatedSymbol == [updatedAt |-> w.now] @@ updates @@ symbols[id]
                     w2 == [w1 EXCEPT !.rooms[roomId].symbols = Put(@, id, updatedSymbol)]
                 IN broadcastToRoom(w2, roomId,
                        Event("symbol_updated", roomId, c, updatedSymbol), NULL)

\* A symbol_delete that deletes and announces whatever id it is given.
symbolDeleteNoCheck(w, c, id) ==
    IF NotInRoom(w, c)
    THEN socketEmit(w, c, Event("error", NULL, c, "Not in a room"))
    ELSE LET roomId == w.cur[c].room
             w1 == getRoomData(w, roomId)
             w2 == [w1 EXCEPT !.rooms[roomId].symbols = Remove(@, id)]
         IN broadcastToRoom(w2, roomId, Event("symbol_deleted", roomId, c, id), NULL)

symbolDelete(w, c, id) ==
    IF NotInRoom(w, c)
    THEN socketEmit(w, c, Event("error", NULL, c, "Not in a room"))
    ELSE LET roomId == w.cur[c].room
             w1 == getRoomData(w, roomId)
         IN IF id \notin DOMAIN w1.rooms[roomId].symbols
            THEN socketEmit(w1, c, Event("error", roomId, c, "Symbol not found"))
            ELSE LET w2 == [w1 EXCEPT !.rooms[roomId].symbols = Remove(@, id)]
                 IN broadcastToRoom(w2, roomId, Event("symbol_deleted", roomId, c, id), NULL)

\* A ping that looks the sender's room up on the way.
pingTouch(w, c) ==
    socketEmit(IF NotInRoom(w, c) THEN w ELSE getRoomData(w, w.cur[c].room),
               c, Event("pong", NULL, c, NULL))

ping(w, c) == socketEmit(w, c, Event("pong", NULL, c, NULL))

\* socket.on('disconnect'): the socket has already left its socket.io rooms.
disconnect(w, c) ==
    LET w1 == [w EXCEPT !.conn[c] = "closed"]
    IN IF ~NotInRoom(w1, c)
       THEN leaveRoom(w1, w1.cur[c].room, w1.cur[c].user, c)
       ELSE w1

\* ---------------------------------------------------------------- actions
\* What a socket's inbox keeps of a delivered event: its kind, room and
\* source, the number of the inbound event that caused it and its place
\* among the emit calls of that run.
Entry(e, k) == [ev |-> e.ev, room |-> e.room, src |-> e.src, seq |-> k, n |-> e.n]

\* A handler runs to completion; what it emitted reaches each socket in the
\* order emitted, after everything emitted before.  v is the handler's world,
\* computed once.
Commit(w) ==
    /\ recording => seq < MaxEvents
    /\ \E v \in {w} :
          /\ activeRooms' = v.rooms
          /\ conn' = v.conn
          /\ cur' = v.cur
          /\ nextId' = v.nextId
          /\ destroyed' = v.destroyed
          /\ seq' = IF recording THEN seq + 1 ELSE seq
          /\ inbox' = IF recording
                      THEN [d \in Conns |->
                              inbox[d] \o [i \in 1..Len(v.out[d]) |-> Entry(v.out[d][i], seq + 1)]]
                      ELSE inbox
    /\ UNCHANGED <<now, recording, hookVars, others>>

InitCore ==
    /\ activeRooms = EmptyMap
    /\ conn = [c \in Conns |-> "idle"]
    /\ cur = [c \in Conns |-> Unbound]
    /\ nextId = 1
    /\ destroyed = {}
    /\ now = 0
    /\ seq = 0
    /\ inbox = NoOut
    /\ gps = Unmounted
    /\ relay = InitialRelay
    /\ ws = InitialWS
    /\ db = InitialDB
    /\ dateNow = Epoch
    /\ orientation = [alpha |-> <<>>]

Init == InitCore /\ recording = FALSE

\* io.on('connection'): a socket appears, unbound.
Connect(c) ==
    /\ conn[c] = "idle"
    /\ conn' = [conn EXCEPT ![c] = "open"]
    /\ cur' = [cur EXCEPT ![c] = Unbound]
    /\ UNCHANGED <<activeRooms, nextId, destroyed, now, recording, seq, inbox, hookVars, others>>

JoinRoom(c, roomId, userId) ==
    /\ conn[c] = "open"
    /\ Commit(joinRoom(Here, c, roomId, userId))

PositionUpdate(c, positionData) ==
    /\ conn[c] = "open"
    /\ Commit(positionUpdate(Here, c, positionData))

SymbolCreate(c, symbolData) ==
    /\ conn[c] = "open"
    /\ nextId <= MaxSymbols
    /\ Commit(symbolCreate(Here, c, symbolData))

SymbolUpdate(c, id, updates) ==
    /\ conn[c] = "open"
    /\ Commit(symbolUpdate(Here, c, id, updates))

SymbolDelete(c, id) ==
    /\ conn[c] = "open"
    /\ Commit(symbolDelete(Here, c, id))

Ping(c) ==
    /\ conn[c] = "open"
    /\ Commit(ping(Here, c))

Disconnect(c) ==
    /\ conn[c] = "open"
    /\ Commit(disconnect(Here, c))

Next ==
    \/ \E c \in Conns : Connect(c)
    \/ \E c \in Conns, r \in RoomIds, u \in UserIds \cup {Unprintable} : JoinRoom(c, r, u)
    \/ \E c \in Conns, p \in Positions : PositionUpdate(c, p)
    \/ \E c \in Conns, d \in SymbolData : SymbolCreate(c, d)
    \/ \E c \in Conns, i \in SymbolIds, u \in Updates : SymbolUpdate(c, i, u)
    \/ \E c \in Conns, i \in SymbolIds : SymbolDelete(c, i)
    \/ \E c \in Conns : Ping(c)
    \/ \E c \in Conns : Disconnect(c)

Spec == Init /\ [][Next]_vars

\* The clock advances between events.
Tick ==
    /\ now < MaxTime
    /\ now' = now + 1
    /\ UNCHANGED <<activeRooms, conn, cur, nextId, destroyed, recording, seq, inbox,
                   hookVars, others>>

\* The symbol traffic of one room, with payloads that leave fields out, under
\* a clock that advances.
NextSym ==
    \/ \E c \in Conns : Connect(c)
    \/ \E c \in Conns, r \in SymRoomIds, u \in SymUserIds : JoinRoom(c, r, u)
    \/ \E c \in Conns, d \in SymSymbolData : SymbolCreate(c, d)
    \/ \E c \in Conns, i \in SymbolIds, u \in SymUpdates : SymbolUpdate(c, i, u)
    \/ \E c \in Conns, i \in SymbolIds : SymbolDelete(c, i)
    \/ \E c \in Conns : Disconnect(c)
    \/ Tick

SpecSym == Init /\ [][NextSym]_vars

\* The same server with every delivery recorded, for the first MaxEvents
\* inbound events.
InitOrder == InitCore /\ recording = TRUE

NextOrder ==
    \/ \E c \in Conns : Connect(c)
    \/ \E c \in Conns, r \in RoomIds, u \in OrdUserIds : JoinRoom(c, r, u)
    \/ \E c \in Conns, p \in OrdPositions : PositionUpdate(c, p)
    \/ \E c \in Conns, d \in OrdSymbolData : SymbolCreate(c, d)
    \/ \E c \in Conns, i \in SymbolIds, u \in OrdUpdates : SymbolUpdate(c, i, u)
    \/ \E c \in Conns, i \in SymbolIds : SymbolDelete(c, i)
    \/ \E c \in Conns : Disconnect(c)

SpecOrder == InitOrder /\ [][NextOrder]_vars

\* ---------------------------------------------------------------- properties
Open == {c \in Conns : conn[c] = "open"}

RoomEvents ==
    {"member_joined", "member_left", "position_update",
     "symbol_created", "symbol_updated", "symbol_deleted"}

MembersOf(w, R) == IF R \in DOMAIN w.rooms THEN w.rooms[R].members ELSE EmptyMap

SymbolsOf(w, R) ==
    IF R \in DOMAIN w.rooms
    THEN {w.rooms[R].symbols[i] : i \in DOMAIN w.rooms[R].symbols}
    ELSE {}

\* P holds of the world every handler leaves, for every input it can get here.
ForAllRuns(P(_)) ==
    /\ \A c \in Open, r \in RoomIds, u \in UserIds : P(joinRoom(Here, c, r, u))
    /\ \A c \in Open, p \in Positions : P(positionUpdate(Here, c, p))
    /\ \A c \in Open, l \in SymbolData : P(symbolCreate(Here, c, l))
    /\ \A c \in Open, i \in SymbolIds, l \in Updates : P(symbolUpdate(Here, c, i, l))
    /\ \A c \in Open, i \in SymbolIds : P(symbolDelete(Here, c, i))
    /\ \A c \in Open : P(ping(Here, c))
    /\ \A c \in Open : P(disconnect(Here, c))

\* The handler delivered event kind ev to socket d.
Got(w, d, ev) == \E i \in DOMAIN w.out[d] : w.out[d][i].ev = ev

\* The handler answered socket c with exactly one error carrying msg.
OnlyError(w, c, msg) ==
    /\ Len(w.out[c]) = 1
    /\ w.out[c][1].ev = "error"
    /\ w.out[c][1].body = msg

\* Connection c1 is bound to (R, U) but U's record in R belongs to another socket.
Superseded(c1, R, U) ==
    /\ conn[c1] = "open"
    /\ cur[c1] = [room |-> R, user |-> U]
    /\ U \in DOMAIN MembersOf(Here, R)
    /\ MembersOf(Here, R)[U].socketId # c1

\* C1: after any sequence of join and disconnect events, for every room R the
\* number of members in R's snapshot equals the number of not-yet-disconnected
\* connections whose current binding is room R.
C1_MemberCountMatchesBindings ==
    \A R \in RoomIds :
        Cardinality(IF R \in DOMAIN activeRooms
                    THEN roomState(activeRooms[R]).members ELSE {})
          = Cardinality({c \in Open : cur[c].room = R})

\* C2: when a connection c1 has joined room R as user U and a different
\* connection c2 then joins R as U, R holds exactly one member record for U
\* and that record carries c2's connection id.
C2_SecondJoinSupersedes ==
    \A c1 \in Conns, c2 \in Open, R \in RoomIds, U \in UserIds :
        (c1 # c2 /\ cur[c1] = [room |-> R, user |-> U]) =>
            LET members == MembersOf(joinRoom(Here, c2, R, U), R)
            IN /\ Cardinality({k \in DOMAIN members : members[k].userId = U}) = 1
               /\ U \in DOMAIN members
               /\ members[U].socketId = c2

\* C2 witness: two open connections bound to the same (R, U); the one record
\* belongs to the connection that is not c1.
C2_Witness ==
    \E c1 \in Open, c2 \in Open, R \in RoomIds, U \in UserIds :
        /\ c1 # c2
        /\ Superseded(c1, R, U)
        /\ cur[c2] = [room |-> R, user |-> U]
        /\ MembersOf(Here, R)[U].socketId = c2

\* What C3 asks of the world w a handler of the superseded connection leaves.
StaleLeaveHarmless(w, R, U) ==
    /\ R \in DOMAIN w.rooms
    /\ U \in DOMAIN w.rooms[R].members
    /\ w.rooms[R].members[U] = activeRooms[R].members[U]
    /\ \A d \in Conns : \A i \in DOMAIN w.out[d] :
          ~(w.out[d][i].ev = "member_left" /\ w.out[d][i].body = U)

\* C3: once c2 has superseded c1 for user U in room R, a disconnect of c1, or a
\* join of c1 to another room, leaves U's record in R in place, delivers no
\* member_left for U and does not reclaim R.
C3_StaleLeaveKeepsMember ==
    \A c1 \in Conns, R \in RoomIds, U \in UserIds :
        Superseded(c1, R, U) =>
            /\ StaleLeaveHarmless(disconnect(Here, c1), R, U)
            /\ \A R2 \in RoomIds \ {R}, U2 \in UserIds :
                  StaleLeaveHarmless(joinRoom(Here, c1, R2, U2), R, U)

\* C3 witness: a superseded connection whose user is the only member of R, so
\* that an unguarded removal would reclaim the room.
C3_Witness ==
    \E c1 \in Conns, R \in RoomIds, U \in UserIds :
        /\ Superseded(c1, R, U)
        /\ Truthy(U)
        /\ DOMAIN MembersOf(Here, R) = {U}
        /\ conn[MembersOf(Here, R)[U].socketId] = "open"

\* C4: after every fully processed event, a room id is in the registry if and
\* only if that room has at least one member.
C4_RoomPresentIffMembers ==
    \A R \in RoomIds :
        R \in DOMAIN activeRooms <=> DOMAIN MembersOf(Here, R) # {}

\* The symbols of the room_state the joining socket c received.
SnapshotSymbols(w, c) ==
    UNION {w.out[c][i].body.symbols :
              i \in {j \in DOMAIN w.out[c] : w.out[c][j].ev = "room_state"}}

\* C5: removing the last member of R removes R together with all its symbols:
\* the removal leaves R out of the registry, a join to a room without members
\* receives a snapshot with no symbols, and a symbolUpdate or symbolDelete
\* naming a discarded symbol id is answered with "Symbol not found".
C5_ReclaimDropsSymbols ==
    /\ \A R \in DOMAIN activeRooms : DOMAIN activeRooms[R].symbols \cap destroyed = {}
    /\ LET Reclaims(w) ==
               \A R \in DOMAIN activeRooms :
                   (/\ DOMAIN activeRooms[R].members # {}
                    /\ DOMAIN MembersOf(w, R) = {}) =>
                       /\ R \notin DOMAIN w.rooms
                       /\ DOMAIN activeRooms[R].symbols \subseteq w.destroyed
       IN /\ \A c \in Open : Reclaims(disconnect(Here, c))
          /\ \A c \in Open, r \in RoomIds, u \in UserIds :
                Reclaims(joinRoom(Here, c, r, u))
    /\ \A c \in Open, R \in RoomIds, U \in UserIds :
          DOMAIN MembersOf(Here, R) = {} =>
              SnapshotSymbols(joinRoom(Here, c, R, U), c) = {}
    /\ \A c \in Open, i \in destroyed, l \in Updates :
          ~NotInRoom(Here, c) =>
              /\ OnlyError(symbolUpdate(Here, c, i, l), c, "Symbol not found")
              /\ OnlyError(symbolDelete(Here, c, i), c, "Symbol not found")

C7_PositionReachesAllBound ==
    \A c \in Open, p \in Positions :
        ~NotInRoom(Here, c) =>
            \A d \in Open \ {c} :
                cur[d].room = cur[c].room =>
                    Got(positionUpdate(Here, c, p), d, "position_update")

\* C8: no room event caused by activity in room R is delivered to a connection
\* whose current binding is another room or none.  The binding of the receiver
\* is taken when the handler starts or when it ends, whichever matches.
C8_EventsStayInRoom ==
    LET Scoped(w) ==
            \A d \in Conns : \A i \in DOMAIN w.out[d] :
                w.out[d][i].ev \in RoomEvents =>
                    w.out[d][i].room \in {cur[d].room, w.cur[d].room}
    IN ForAllRuns(Scoped)

\* A client's symbol set after one delivered event.
applyEvent(v, e) ==
    CASE e.ev = "room_state"     -> e.body.symbols
      [] e.ev = "symbol_created" -> v \cup {e.body}
      [] e.ev = "symbol_updated" -> {s \in v : s.id # e.body.id} \cup {e.body}
      [] e.ev = "symbol_deleted" -> {s \in v : s.id # e.body}
      [] OTHER                   -> v

RECURSIVE applyEvents(_, _)
applyEvents(v, es) ==
    IF es = <<>> THEN v ELSE applyEvents(applyEvent(v, Head(es)), Tail(es))

\* C9: for every connection bound to a room R, the snapshot it received at
\* join with the symbol deltas delivered to it applied in order equals the
\* registry's symbol map of R.  Stated as the step that has to preserve it: a
\* client whose symbol set equals the registry's before a handler runs has,
\* after applying what that handler delivered to it, the registry's set again.
C9_ClientViewTracksRegistry ==
    LET Tracks(w) ==
            \A c \in Conns :
                (w.conn[c] = "open" /\ ~NotInRoom(w, c)) =>
                    applyEvents(SymbolsOf(Here, cur[c].room), w.out[c])
                      = SymbolsOf(w, w.cur[c].room)
    IN ForAllRuns(Tracks)

\* C10: a position, symbolCreate, symbolUpdate or symbolDelete event from a
\* connection that has never joined is answered with a "Not in a room" error to
\* the sender alone and changes nothing in the registry.
C10_UnboundRejected ==
    LET Rejected(w, c) ==
            /\ OnlyError(w, c, "Not in a room")
            /\ \A d \in Conns \ {c} : w.out[d] = <<>>
            /\ w.rooms = activeRooms
            /\ w.cur = cur
            /\ w.nextId = nextId
    IN \A c \in Open :
          cur[c] = Unbound =>
              /\ \A p \in Positions : Rejected(positionUpdate(Here, c, p), c)
              /\ \A l \in SymbolData : Rejected(symbolCreate(Here, c, l), c)
              /\ \A i \in SymbolIds, l \in Updates : Rejected(symbolUpdate(Here, c, i, l), c)
              /\ \A i \in SymbolIds : Rejected(symbolDelete(Here, c, i), c)

\* C10 witness: a connection that never joined, next to a room that holds a
\* member and a symbol another connection put there.
C10_Witness ==
    \E c \in Open, R \in DOMAIN activeRooms :
        /\ cur[c] = Unbound
        /\ DOMAIN activeRooms[R].members # {}
        /\ DOMAIN activeRooms[R].symbols # {}

\* The symbol ids the room connection c is bound to holds.
BoundSymbolIds(c) ==
    IF cur[c].room \in DOMAIN activeRooms
    THEN DOMAIN activeRooms[cur[c].room].symbols ELSE {}

\* C11: a symbolDelete, and likewise a symbolUpdate, from a bound connection
\* that names an id the bound room's symbol map does not hold is answered with
\* a "Symbol not found" error to the sender only, and no symbol_deleted or
\* symbol_updated event is delivered to any connection.
C11_AbsentIdRejected ==
    LET NotFound(w, c) ==
            /\ OnlyError(w, c, "Symbol not found")
            /\ \A d \in Conns \ {c} : w.out[d] = <<>>
            /\ \A d \in Conns : ~Got(w, d, "symbol_deleted") /\ ~Got(w, d, "symbol_updated")
    IN \A c \in Open, i \in SymbolIds :
          (~NotInRoom(Here, c) /\ i \notin BoundSymbolIds(c)) =>
              /\ NotFound(symbolDelete(Here, c, i), c)
              /\ \A u \in Updates : NotFound(symbolUpdate(Here, c, i, u), c)

\* C11 witness: a connection holds its member record in a room that another
\* open connection is a member of too, and an id the generator has handed out
\* is not in that room's symbol map.
C11_Witness ==
    \E c \in Open, d \in Open, i \in SymbolIds :
        /\ c # d
        /\ ~NotInRoom(Here, c)
        /\ i < nextId
        /\ i \notin BoundSymbolIds(c)
        /\ \E u, v \in DOMAIN MembersOf(Here, cur[c].room) :
              /\ MembersOf(Here, cur[c].room)[u].socketId = c
              /\ MembersOf(Here, cur[c].room)[v].socketId = d

\* C12: a symbolUpdate with a partial payload changes only the supplied fields
\* of the stored symbol: every field the payload leaves out keeps its value,
\* the id is unchanged, no other symbol changes, and the update timestamp is
\* set to a value greater than or equal to the prior one, also when the
\* payload supplies an update timestamp itself.
C12_PartialUpdate ==
    \A c \in Open, i \in SymbolIds, u \in SymUpdates :
        (~NotInRoom(Here, c) /\ i \in BoundSymbolIds(c)) =>
            LET R == cur[c].room
                old == activeRooms[R].symbols
                new == symbolUpdate(Here, c, i, u).rooms[R].symbols
            IN /\ DOMAIN new = DOMAIN old
               /\ \A j \in DOMAIN old \ {i} : new[j] = old[j]
               /\ DOMAIN new[i] = DOMAIN old[i] \cup DOMAIN u
               /\ new[i].id = old[i].id
               /\ \A f \in DOMAIN u \ {"updatedAt"} : new[i][f] = u[f]
               /\ \A f \in DOMAIN old[i] \ (DOMAIN u \cup {"updatedAt"}) :
                     new[i][f] = old[i][f]
               /\ new[i].updatedAt >= old[i].updatedAt

\* C12 witness: a symbol created with a colour has been relabelled by an
\* update and kept its colour, and its update timestamp is later than the one
\* a payload carries.
C12_Witness ==
    \E R \in DOMAIN activeRooms : \E i \in DOMAIN activeRooms[R].symbols :
        LET s == activeRooms[R].symbols[i]
        IN /\ s.label = "b"
           /\ "color" \in DOMAIN s
           /\ s.updatedAt > StaleTime
           /\ s.createdAt < s.updatedAt

\* C16: when a symbolCreate payload leaves colour and rotation out, the symbol
\* that is stored and broadcast has colour "#FF0000" and rotation 0, and every
\* recipient of symbol_created sees the same generated id.
C16_CreateDefaults ==
    \A c \in Open, d \in SymSymbolData :
        (/\ ~NotInRoom(Here, c)
         /\ nextId <= MaxSymbols
         /\ DOMAIN d \cap {"color", "rotation"} = {}) =>
            LET R == cur[c].room
                w == symbolCreate(Here, c, d)
                Defaulted(s) ==
                    /\ {"color", "rotation"} \subseteq DOMAIN s
                    /\ s.color = DefaultColor
                    /\ s.rotation = DefaultRotation
            IN /\ nextId \in DOMAIN w.rooms[R].symbols
               /\ Defaulted(w.rooms[R].symbols[nextId])
               /\ \A x \in Conns : \A k \in DOMAIN w.out[x] :
                     w.out[x][k].ev = "symbol_created" =>
                         /\ w.out[x][k].body.id = nextId
                         /\ Defaulted(w.out[x][k].body)

\* The symbol map of room R in world w.
SymbolMap(w, R) == IF R \in DOMAIN w.rooms THEN w.rooms[R].symbols ELSE EmptyMap

\* C13: a symbolUpdate or symbolDelete that is answered with an error leaves
\* the symbol state unchanged: no symbol in any room is added, changed or
\* removed, and no client receives a symbol delta.
C13_FailedMutationNoEffect ==
    LET NoEffect(w, c) ==
            Got(w, c, "error") =>
                /\ \A R \in RoomIds : SymbolMap(w, R) = SymbolMap(Here, R)
                /\ \A d \in Conns :
                      /\ ~Got(w, d, "symbol_created")
                      /\ ~Got(w, d, "symbol_updated")
                      /\ ~Got(w, d, "symbol_deleted")
    IN \A c \in Open, i \in SymbolIds :
          /\ NoEffect(symbolDelete(Here, c, i), c)
          /\ \A u \in Updates : NoEffect(symbolUpdate(Here, c, i, u), c)

\* C13 witness: a bound connection can name an id its room does not hold,
\* while another room holds a symbol with that id.
C13_Witness ==
    \E c \in Open, i \in SymbolIds, R \in RoomIds :
        /\ ~NotInRoom(Here, c)
        /\ i \notin BoundSymbolIds(c)
        /\ i \in DOMAIN SymbolMap(Here, R)
        /\ DOMAIN MembersOf(Here, cur[c].room) # {}

\* C14: every symbolCreate processed from a connection bound to room R is
\* delivered as symbol_created to all members of R including the sending
\* connection itself, and likewise symbol_updated and symbol_deleted reach all
\* members including the sender.
C14_SymbolEventsReachAll ==
    \A c \in Open :
        ~NotInRoom(Here, c) =>
            LET members == MembersOf(Here, cur[c].room)
                Reached(w, ev) ==
                    /\ Got(w, c, ev)
                    /\ \A u \in DOMAIN members :
                          members[u].socketId \in Open => Got(w, members[u].socketId, ev)
            IN /\ \A d \in SymbolData :
                     nextId <= MaxSymbols => Reached(symbolCreate(Here, c, d), "symbol_created")
               /\ \A i \in BoundSymbolIds(c) :
                     /\ Reached(symbolDelete(Here, c, i), "symbol_deleted")
                     /\ \A u \in Updates :
                           Reached(symbolUpdate(Here, c, i, u), "symbol_updated")

\* The places of event kind ev among what the handler delivered to socket d.
Places(w, d, ev) == {k \in DOMAIN w.out[d] : w.out[d][k].ev = ev}

\* C15: the room_state sent to a joining connection lists exactly the members
\* the registry holds for that room when the join is processed, the joiner
\* among them and each with its current position, and exactly that room's
\* symbols.  The members are those the room had before, less the record the
\* joiner gave up in it, plus the joiner; the symbols are those the room had
\* before, unless the joiner was its last member and the room was reclaimed.
C15_SnapshotIsRegistry ==
    \A c \in Open, R \in RoomIds, U \in UserIds :
        \A w \in {joinRoom(Here, c, R, U)} :
            LET before == MembersOf(Here, R)
                left == IF /\ ~NotInRoom(Here, c)
                           /\ cur[c].room = R
                           /\ cur[c].user \in DOMAIN before
                           /\ before[cur[c].user].socketId = c
                        THEN {cur[c].user} ELSE {}
                registry == w.rooms[R].members
            IN /\ Cardinality(Places(w, c, "room_state")) = 1
               /\ \A k \in Places(w, c, "room_state") :
                     LET snapshot == w.out[c][k].body
                     IN /\ {m.userId : m \in snapshot.members} = DOMAIN registry
                        /\ Cardinality(snapshot.members) = Cardinality(DOMAIN registry)
                        /\ DOMAIN registry = (DOMAIN before \ left) \cup {U}
                        /\ \A m \in snapshot.members :
                              /\ m.position = registry[m.userId].position
                              /\ (m.userId # U) => m.position = before[m.userId].position
                        /\ snapshot.symbols = SymbolsOf(w, R)
                        /\ snapshot.symbols =
                              IF left # {} /\ DOMAIN before = left
                              THEN {} ELSE SymbolsOf(Here, R)

\* C15 witness: a room holds a symbol and two members, one of them with a
\* reported position, and the socket of the other one is open to join again.
C15_Witness ==
    \E R \in DOMAIN activeRooms : \E u, v \in DOMAIN activeRooms[R].members :
        /\ u # v
        /\ activeRooms[R].members[u].position # NoPos
        /\ activeRooms[R].members[v].socketId \in Open
        /\ DOMAIN activeRooms[R].symbols # {}

\* Connection c holds the member record of its binding.
HoldsRecord(c) ==
    /\ cur[c].room \in RoomIds
    /\ cur[c].user \in DOMAIN MembersOf(Here, cur[c].room)
    /\ MembersOf(Here, cur[c].room)[cur[c].user].socketId = c

\* The member records of world w that carry socket c, as <<room, user>>.
RecordsOf(w, c) ==
    {ru \in RoomIds \X UserIds :
        /\ ru[2] \in DOMAIN MembersOf(w, ru[1])
        /\ MembersOf(w, ru[1])[ru[2]].socketId = c}

\* C17: when a connection that is bound to (R1, U1) and holds that member
\* record sends join(R2, U2), the leave cleanup of the old binding is done
\* first: U1 is removed from R1, the remaining members of R1 receive
\* member_left for U1 ahead of anything the join sends them, and R1 is
\* reclaimed if it became empty; afterwards the connection is a member of R2
\* only.
C17_RejoinLeavesFirst ==
    \A c \in Open, R2 \in RoomIds, U2 \in UserIds :
        HoldsRecord(c) =>
            LET R1 == cur[c].room
                U1 == cur[c].user
                before == MembersOf(Here, R1)
                w == joinRoom(Here, c, R2, U2)
                LeftAt(d) == {k \in DOMAIN w.out[d] :
                                 /\ w.out[d][k].ev = "member_left"
                                 /\ w.out[d][k].room = R1
                                 /\ w.out[d][k].body = U1}
            IN /\ RecordsOf(w, c) = {<<R2, U2>>}
               /\ (R1 # R2 /\ DOMAIN before = {U1}) => R1 \notin DOMAIN w.rooms
               /\ \A u \in DOMAIN before \ {U1} :
                     LET d == before[u].socketId
                     IN (d \in Open /\ d # c) =>
                           /\ LeftAt(d) # {}
                           /\ \A k \in LeftAt(d), j \in Places(w, d, "member_joined") : k < j

\* The world a handler left, as the next handler finds it.
Settled(w) == [w EXCEPT !.out = NoOut, !.emits = 0]

\* C18: disconnect cleanup runs exactly once per connection: when the
\* connection holding a member record disconnects, its record is removed, each
\* remaining member of the room receives exactly one member_left for that
\* user and the departing connection receives none; a second disconnect of
\* the same connection changes nothing in the registry and emits no event.
C18_DisconnectOnce ==
    \A c \in Open :
        HoldsRecord(c) =>
            LET R == cur[c].room
                U == cur[c].user
                before == MembersOf(Here, R)
                w == disconnect(Here, c)
                again == disconnect(Settled(w), c)
                LeftAt(d) == {k \in DOMAIN w.out[d] :
                                 w.out[d][k].ev = "member_left" /\ w.out[d][k].body = U}
            IN /\ U \notin DOMAIN MembersOf(w, R)
               /\ w.out[c] = <<>>
               /\ \A u \in DOMAIN before \ {U} :
                     LET d == before[u].socketId
                     IN (d \in Open /\ d # c) => Cardinality(LeftAt(d)) = 1
               /\ again.rooms = w.rooms
               /\ again.cur = w.cur
               /\ \A d \in Conns : again.out[d] = <<>>

\* Entry a was emitted no later than entry b: by an earlier inbound event, or
\* by the same one at an earlier or the same emit call.
EmittedBefore(a, b) == a.seq < b.seq \/ (a.seq = b.seq /\ a.n <= b.n)

\* An inbox entry that is a delta of room R.
DeltaOf(a, R) == a.ev \in RoomEvents /\ a.room = R

\* C19: for any room and any observer connection, the deltas that originate
\* from one source connection are delivered to that observer in the order in
\* which the server processed the source's events.
C19_FifoPerSource ==
    \A d \in Conns, R \in RoomIds : \A i, j \in DOMAIN inbox[d] :
        (/\ i < j
         /\ DeltaOf(inbox[d][i], R)
         /\ DeltaOf(inbox[d][j], R)
         /\ inbox[d][i].src = inbox[d][j].src) =>
            EmittedBefore(inbox[d][i], inbox[d][j])

\* C19 witness: an observer has received, from one other connection, a delta
\* of an earlier event followed by two deltas of one later event.
C19_Witness ==
    \E d \in Conns, R \in RoomIds : \E i, j, k \in DOMAIN inbox[d] :
        /\ i < j /\ j < k
        /\ DeltaOf(inbox[d][i], R) /\ DeltaOf(inbox[d][j], R) /\ DeltaOf(inbox[d][k], R)
        /\ inbox[d][i].src # d
        /\ inbox[d][i].src = inbox[d][j].src
        /\ inbox[d][j].src = inbox[d][k].src
        /\ inbox[d][i].seq < inbox[d][j].seq
        /\ inbox[d][j].seq = inbox[d][k].seq
        /\ inbox[d][j].n < inbox[d][k].n

C21_PingOnlyPongs ==
    LET Ponged(w, c) ==
            /\ Len(w.out[c]) = 1
            /\ w.out[c][1].ev = "pong"
            /\ \A d \in Conns \ {c} : w.out[d] = <<>>
            /\ w.rooms = activeRooms
            /\ w.cur = cur
            /\ w.conn = conn
            /\ w.nextId = nextId
    IN \A c \in Open : Ponged(ping(Here, c), c)

\* C21 witness: a connection whose bound room is not in the registry is open
\* next to a room that holds a member.
C21_Witness ==
    \E d \in Open, R \in DOMAIN activeRooms :
        /\ ~NotInRoom(Here, d)
        /\ cur[d].room \notin DOMAIN activeRooms
        /\ DOMAIN activeRooms[R].members # {}

\* C22: whenever a join ends with a join_room_error to the sender, the
\* connection is unbound afterwards and the registry holds no member record
\* carrying that connection's id.
C22_FailedJoinUnbound ==
    \A c \in Open, R \in RoomIds \cup {Unprintable}, U \in UserIds \cup {Unprintable} :
        \A w \in {joinRoom(Here, c, R, U)} :
            Got(w, c, "join_room_error") =>
                /\ w.cur[c] = Unbound
                /\ RecordsOf(w, c) = {}

\* C23: the per-connection bookkeeping is always consistent with registry
\* membership: for every not-yet-disconnected connection whose binding is
\* (R, U), room R is in the registry and holds a member record for U whose
\* stored connection id is that connection's id.
C23_BindingHasRecord ==
    \A c \in Open :
        cur[c] # Unbound =>
            /\ cur[c].room \in DOMAIN activeRooms
            /\ cur[c].user \in DOMAIN activeRooms[cur[c].room].members
            /\ activeRooms[cur[c].room].members[cur[c].user].socketId = c

\* z.string().regex(/^#[0-9A-F]{6}$/i)
HexDigits ==
    {"0", "1", "2", "3", "4", "5", "6", "7", "8", "9",
     "A", "B", "C", "D", "E", "F", "a", "b", "c", "d", "e", "f"}

IsHexColor(s) ==
    /\ Len(s) = 7
    /\ s[1] = "#"
    /\ \A i \in 2..7 : s[i] \in HexDigits

\* What TacticalSymbolSchema asks of a symbol.
ValidSymbol(s) ==
    /\ {"coordinates", "rotation", "color"} \subseteq DOMAIN s
    /\ s.coordinates.latitude >= -90 /\ s.coordinates.latitude <= 90
    /\ s.coordinates.longitude >= -180 /\ s.coordinates.longitude <= 180
    /\ s.rotation >= 0 /\ s.rotation <= 360
    /\ IsHexColor(s.color)

\* C24: every symbol held in the registry, after any sequence of symbolCreate
\* and symbolUpdate events with arbitrary payloads, has latitude within
\* [-90, 90], longitude within [-180, 180], rotation within [0, 360) and a
\* colour that is a 6-hex-digit code.
C24_StoredSymbolsValid ==
    \A R \in DOMAIN activeRooms : \A i \in DOMAIN activeRooms[R].symbols :
        ("coordinates" \in DOMAIN activeRooms[R].symbols[i]) =>
            /\ ValidSymbol(activeRooms[R].symbols[i])
            /\ activeRooms[R].symbols[i].rotation < 360

\* C28: only a join can add a room to the registry: a position, symbolCreate,
\* symbolUpdate, symbolDelete, ping or disconnect event never creates a room
\* entry, also when the sender's bound room has meanwhile been reclaimed.
C28_OnlyJoinAddsRoom ==
    LET NoNewRoom(w) == DOMAIN w.rooms \subseteq DOMAIN activeRooms
    IN /\ \A c \in Open, p \in Positions : NoNewRoom(positionUpdate(Here, c, p))
       /\ \A c \in Open, l \in SymbolData : NoNewRoom(symbolCreate(Here, c, l))
       /\ \A c \in Open, i \in SymbolIds, l \in Updates :
             NoNewRoom(symbolUpdate(Here, c, i, l))
       /\ \A c \in Open, i \in SymbolIds : NoNewRoom(symbolDelete(Here, c, i))
       /\ \A c \in Open : NoNewRoom(ping(Here, c))
       /\ \A c \in Open : NoNewRoom(disconnect(Here, c))

\* C29: after connection C2 has taken over user U's member record in room R
\* from connection C1, a position event sent by C1 neither changes U's stored
\* position or last-seen time nor is broadcast to any member of R.
C29_SupersededPositionIgnored ==
    \A c1 \in Open, R \in RoomIds, U \in UserIds, p \in Positions :
        Superseded(c1, R, U) =>
            \A w \in {positionUpdate(Here, c1, p)} :
                /\ MembersOf(w, R)[U].position = MembersOf(Here, R)[U].position
                /\ MembersOf(w, R)[U].lastSeen = MembersOf(Here, R)[U].lastSeen
                /\ \A d \in Conns : ~Got(w, d, "position_update")

\* The position payloads a client can send: without a userId, or naming any
\* user, the sender's own or another's.
ClaimedPositions ==
    Positions \cup {[coordinates |-> "p1", userId |-> u] : u \in UserIds}

\* C30: the userId carried by a position_update delta delivered to the other
\* members equals the userId the sending connection is bound to, whatever
\* userId (or none) the client put in the position payload.
C30_DeltaNamesSender ==
    \A c \in Open, p \in ClaimedPositions :
        \A w \in {positionUpdate(Here, c, p)} :
            \A d \in Conns : \A i \in DOMAIN w.out[d] :
                w.out[d][i].ev = "position_update" =>
                    /\ "userId" \in DOMAIN w.out[d][i].body
                    /\ w.out[d][i].body.userId = cur[c].user

\* The member records of room R whose socket is gone: an emit addressed to
\* one of them is delivered to nobody.
Undeliverable(R) ==
    {u \in DOMAIN MembersOf(Here, R) : conn[MembersOf(Here, R)[u].socketId] # "open"}

\* C25: if delivering a broadcast event to one recipient fails, every other
\* recipient in the room still receives the event, the registry mutation that
\* triggered the broadcast stays applied, and the sender is not sent an error
\* for it.  Checked for the symbol_created and symbol_deleted broadcasts.
C25_FailedDeliveryIsolated ==
    \A c \in Open :
        (~NotInRoom(Here, c) /\ Undeliverable(cur[c].room) # {}) =>
            LET R == cur[c].room
                Others == {MembersOf(Here, R)[u].socketId :
                              u \in DOMAIN MembersOf(Here, R) \ Undeliverable(R)}
            IN /\ \A l \in SymbolData : \A w \in {symbolCreate(Here, c, l)} :
                     /\ \A d \in Others : Got(w, d, "symbol_created")
                     /\ nextId \in DOMAIN w.rooms[R].symbols
                     /\ ~Got(w, c, "error")
               /\ \A i \in DOMAIN activeRooms[R].symbols :
                     \A w \in {symbolDelete(Here, c, i)} :
                         /\ \A d \in Others : Got(w, d, "symbol_deleted")
                         /\ i \notin DOMAIN w.rooms[R].symbols
                         /\ ~Got(w, c, "error")

\* A bound sender whose room holds a record of a socket that is gone next to
\* a record of an open socket, and a symbol to delete.
C25_Witness ==
    \E c \in Open :
        /\ ~NotInRoom(Here, c)
        /\ Undeliverable(cur[c].room) # {}
        /\ DOMAIN MembersOf(Here, cur[c].room) \ Undeliverable(cur[c].room) # {}
        /\ DOMAIN activeRooms[cur[c].room].symbols # {}

\* ------------------------------------------------------- the client hooks
serverVars == <<activeRooms, conn, cur, nextId, destroyed, now, recording, seq, inbox>>

\* x || undefined, for a number | null x.
OrUndefined(x) == IF x = <<>> \/ x = <<0>> THEN <<>> ELSE x

\* handleSuccess: the watch reports a fix while Date.now() reads nowv.
handleSuccess(h, position, nowv) ==
    IF nowv - h.lastUpdateRef < h.updateInterval[1]
    THEN h
    ELSE LET coordinates == [latitude |-> position.latitude,
                             longitude |-> position.longitude,
                             accuracy |-> position.accuracy,
                             heading |-> OrUndefined(position.heading),
                             timestamp |-> nowv]
         IN [h EXCEPT !.lastUpdateRef = nowv,
                      !.state = [@ EXCEPT !.position = <<coordinates>>,
                                          !.error = <<>>,
                                          !.loading = FALSE]]

handleError(h, error) ==
    [h EXCEPT !.state = [@ EXCEPT !.error = <<error>>, !.loading = FALSE]]

startWatching(h) ==
    IF ~h.geolocation
    THEN [h EXCEPT !.state = [@ EXCEPT !.error = <<"Geolocation not supported">>,
                                       !.loading = FALSE]]
    ELSE [h EXCEPT !.state = [@ EXCEPT !.loading = TRUE], !.watchIdRef = <<1>>]

stopWatching(h) ==
    [h EXCEPT !.watchIdRef = <<>>, !.state = [@ EXCEPT !.loading = FALSE]]

\* getCompassHeading without the correction of a heading of 360.
getCompassHeadingNoWrap(o) ==
    IF o.alpha = <<>>
    THEN <<>>
    ELSE LET heading == 360 - o.alpha[1]
         IN <<IF heading < 0 THEN heading + 360 ELSE heading>>

getCompassHeading(o) ==
    IF o.alpha = <<>>
    THEN <<>>
    ELSE LET heading == 360 - o.alpha[1]
             wrapped == IF heading >= 360 THEN heading - 360 ELSE heading
         IN <<IF wrapped < 0 THEN wrapped + 360 ELSE wrapped>>

Mounted == gps.updateInterval # <<>>

\* useGPS(options) is called on a device with or without geolocation.
Mount(interval, supported) ==
    /\ ~Mounted
    /\ gps' = [Unmounted EXCEPT !.updateInterval = <<interval>>, !.geolocation = supported]
    /\ UNCHANGED <<dateNow, orientation, serverVars, others>>

StartWatching ==
    /\ Mounted
    /\ gps.watchIdRef = <<>>
    /\ gps' = startWatching(gps)
    /\ UNCHANGED <<dateNow, orientation, serverVars, others>>

\* The watch calls back only between watchPosition and clearWatch.
HandleSuccess(position) ==
    /\ gps.watchIdRef # <<>>
    /\ gps' = handleSuccess(gps, position, dateNow)
    /\ UNCHANGED <<dateNow, orientation, serverVars, others>>

HandleError(error) ==
    /\ gps.watchIdRef # <<>>
    /\ gps' = handleError(gps, error)
    /\ UNCHANGED <<dateNow, orientation, serverVars, others>>

StopWatching ==
    /\ Mounted
    /\ gps' = stopWatching(gps)
    /\ UNCHANGED <<dateNow, orientation, serverVars, others>>

TickClock ==
    /\ dateNow < Epoch + MaxElapsed
    /\ dateNow' = dateNow + 1
    /\ UNCHANGED <<gps, orientation, serverVars, others>>

NextGPS ==
    \/ \E i \in UpdateIntervals, g \in BOOLEAN : Mount(i, g)
    \/ StartWatching
    \/ \E p \in Fixes : HandleSuccess(p)
    \/ \E e \in GeoErrors : HandleError(e)
    \/ StopWatching
    \/ TickClock

SpecGPS == Init /\ [][NextGPS]_vars

\* handleOrientation: a deviceorientation event reports alpha, or none.
HandleOrientation(alpha) ==
    /\ orientation' = [alpha |-> alpha]
    /\ UNCHANGED <<gps, dateNow, serverVars, others>>

NextCompass ==
    \E alpha \in {<<>>} \cup {<<a>> : a \in Alphas} : HandleOrientation(alpha)

SpecCompass == Init /\ [][NextCompass]_vars

\* C26: in useGPS, a position fix reported by the watch is accepted only if at
\* least updateInterval milliseconds have passed since the previously accepted
\* fix (the first fix is always accepted); an accepted fix sets position to
\* the fix's coordinates, error to null and loading to false, and a dropped
\* fix changes no state.
C26_ThrottledFix ==
    gps.watchIdRef # <<>> =>
        \A fix \in Fixes :
            LET h == handleSuccess(gps, fix, dateNow)
                first == gps.lastUpdateRef = 0
                due == dateNow - gps.lastUpdateRef >= gps.updateInterval[1]
            IN IF first \/ due
               THEN /\ h.state.position # <<>>
                    /\ h.state.position[1].latitude = fix.latitude
                    /\ h.state.position[1].longitude = fix.longitude
                    /\ h.state.position[1].accuracy = fix.accuracy
                    /\ h.state.position[1].heading = fix.heading
                    /\ h.state.error = <<>>
                    /\ h.state.loading = FALSE
               ELSE h = gps

\* C27: for every device orientation alpha in [0, 360], the compass heading
\* reported by useDeviceOrientation equals (360 - alpha) modulo 360 and lies
\* in [0, 360); it is null exactly when alpha is null.
C27_CompassHeading ==
    LET heading == getCompassHeading(orientation)
    IN /\ heading = <<>> <=> orientation.alpha = <<>>
       /\ orientation.alpha # <<>> =>
             /\ heading[1] = (360 - orientation.alpha[1]) % 360
             /\ heading[1] >= 0 /\ heading[1] < 360

\* The device points north: 360 - alpha is 360 before the correction.
C27_Witness == orientation.alpha = <<0>>

\* symbol_create payloads that carry no owner, the sender's own room and
\* user, or another room and user.
ClaimedSymbolData ==
    {[label |-> "a"],
     [label |-> "a", roomId |-> "r1", createdBy |-> "u1"],
     [label |-> "a", roomId |-> "r2", createdBy |-> "u2"]}

\* C31: every symbol stored in room R's symbol map records R as its owning
\* room id and, as creator, the userId of the connection binding that created
\* it, whatever roomId / createdBy values the symbolCreate payload carries.
C31_SymbolOwnership ==
    \A c \in Open : ~NotInRoom(Here, c) =>
        \A d \in ClaimedSymbolData : \A w \in {symbolCreate(Here, c, d)} :
            LET s == w.rooms[cur[c].room].symbols[nextId]
            IN /\ {"roomId", "createdBy"} \subseteq DOMAIN s
               /\ s.roomId = cur[c].room
               /\ s.createdBy = cur[c].user

\* C32: after a connection has disconnected, no member record in any room
\* carries that connection's id, whatever roomId and userId values its join
\* requests carried (including an empty userId).
C32_DisconnectedHasNoRecord ==
    \A c \in Conns : conn[c] = "closed" => RecordsOf(Here, c) = {}

\* C33: in every reachable state a connection id appears in at most one
\* member record across all rooms, and when it appears, the record sits in
\* the room and under the userId of that connection's current binding.
C33_OneRecordPerConnection ==
    \A c \in Conns :
        /\ Cardinality(RecordsOf(Here, c)) <= 1
        /\ \A ru \in RecordsOf(Here, c) : cur[c] = [room |-> ru[1], user |-> ru[2]]

\* C34: when a connection that is the only member of room R sends join for R
\* again, the leave cleanup reclaims R before the new join recreates it, so
\* every symbol of R is discarded and the snapshot the connection receives
\* has an empty symbol list.
C34_SoleRejoinReclaims ==
    \A c \in Open, R \in DOMAIN activeRooms, U \in UserIds, U2 \in UserIds :
        (/\ cur[c] = [room |-> R, user |-> U]
         /\ DOMAIN activeRooms[R].members = {U}
         /\ activeRooms[R].members[U].socketId = c) =>
            \A w \in {joinRoom(Here, c, R, U2)} :
                /\ DOMAIN activeRooms[R].symbols \subseteq w.destroyed
                /\ SymbolsOf(w, R) = {}
                /\ SnapshotSymbols(w, c) = {}

\* ------------------------------------- the legacy relay (socket-server.js)
RelayEvents == {"position-update", "symbol-create", "symbol-update", "symbol-delete"}

\* socket.to(roomId): the connected sockets in that socket.io room, sender
\* excluded.
relayTo(r, s, roomId) ==
    {d \in Conns \ {s} : r.status[d] = "open" /\ roomId \in r.joined[d]}

relayOut(targets, e) == [d \in Conns |-> IF d \in targets THEN <<e>> ELSE <<>>]

\* socket.on('join-room')
relayJoinRoom(r, s, data) ==
    LET roomId == data.roomId
        userId == data.userId
        previousRoom == IF userId \in DOMAIN r.userRooms THEN r.userRooms[userId] ELSE NULL
        r1 == IF Truthy(previousRoom)
              THEN [r EXCEPT !.joined[s] = @ \ {previousRoom},
                             !.roomConnections =
                                 IF previousRoom \in DOMAIN @
                                 THEN [@ EXCEPT ![previousRoom] = @ \ {s}]
                                 ELSE @]
              ELSE r
        r2 == [r1 EXCEPT !.joined[s] = @ \cup {roomId},
                         !.session[s] = userId,
                         !.userRooms = Put(@, userId, roomId),
                         !.roomOrder = IF roomId \in DOMAIN r1.roomConnections
                                       THEN @ ELSE Append(@, roomId),
                         !.roomConnections =
                             IF roomId \in DOMAIN @
                             THEN [@ EXCEPT ![roomId] = @ \cup {s}]
                             ELSE Put(@, roomId, {s})]
        notice == relayOut(relayTo(r2, s, roomId),
                           [ev |-> "user-joined", body |-> [userId |-> userId, socketId |-> s]])
        status == [ev |-> "room-status",
                   body |-> [connectedUsers |-> Cardinality(r2.roomConnections[roomId]),
                             roomId |-> roomId]]
    IN [relay |-> r2, out |-> [notice EXCEPT ![s] = Append(@, status)]]

\* socket.on('position-update' / 'symbol-create' / 'symbol-update' /
\* 'symbol-delete'): the room is the one the payload names.
relayEvent(r, s, ev, data) ==
    [relay |-> r,
     out |-> relayOut(relayTo(r, s, data.roomId),
                      [ev |-> ev,
                       body |-> IF ev = "symbol-delete" THEN [id |-> data.id] ELSE data])]

\* socket.on('disconnect'): the socket has already left its socket.io rooms.
\* The first loop stops at the first room, in insertion order, that holds
\* the socket; the second drops every userRooms entry whose room does not
\* hold the socket.
relayDisconnect(r, s) ==
    LET r0 == [r EXCEPT !.status[s] = "closed", !.joined[s] = {}]
        holding == {i \in DOMAIN r.roomOrder : s \in r.roomConnections[r.roomOrder[i]]}
        first == CHOOSE i \in holding : \A j \in holding : i <= j
        roomId == r.roomOrder[first]
        users == r.roomConnections[roomId] \ {s}
        r1 == IF holding = {}
              THEN r0
              ELSE IF users = {}
                   THEN [r0 EXCEPT !.roomConnections = Remove(@, roomId),
                                   !.roomOrder = SelectSeq(@, LAMBDA x : x # roomId)]
                   ELSE [r0 EXCEPT !.roomConnections[roomId] = users]
        kept == {u \in DOMAIN r1.userRooms :
                    /\ r1.userRooms[u] \in DOMAIN r1.roomConnections
                    /\ s \in r1.roomConnections[r1.userRooms[u]]}
        r2 == [r1 EXCEPT !.userRooms = [u \in kept |-> r1.userRooms[u]]]
    IN [relay |-> r2,
        out |-> IF holding = {}
                THEN NoOut
                ELSE relayOut(relayTo(r0, s, roomId),
                              [ev |-> "user-left", body |-> [socketId |-> s]])]

notRelay == <<serverVars, hookVars, ws, db>>

RelayConnect(s) ==
    /\ relay.status[s] = "idle"
    /\ relay' = [relay EXCEPT !.status[s] = "open"]
    /\ UNCHANGED notRelay

RelayJoinRoom(s, roomId, userId) ==
    /\ relay.status[s] = "open"
    /\ relay' = relayJoinRoom(relay, s, [roomId |-> roomId, userId |-> userId]).relay
    /\ UNCHANGED notRelay

RelayEvent(s, ev, roomId) ==
    /\ relay.status[s] = "open"
    /\ relay' = relayEvent(relay, s, ev, [roomId |-> roomId, id |-> 1]).relay
    /\ UNCHANGED notRelay

RelayDisconnect(s) ==
    /\ relay.status[s] = "open"
    /\ relay' = relayDisconnect(relay, s).relay
    /\ UNCHANGED notRelay

NextRelay ==
    \/ \E s \in Conns : RelayConnect(s)
    \/ \E s \in Conns, r \in RoomIds, u \in RelayUsers : RelayJoinRoom(s, r, u)
    \/ \E s \in Conns, ev \in RelayEvents, r \in RoomIds : RelayEvent(s, ev, r)
    \/ \E s \in Conns : RelayDisconnect(s)

SpecRelay == Init /\ [][NextRelay]_vars

\* C35: in the legacy relay server, a position-update, symbol-create,
\* symbol-update or symbol-delete event from a socket is relayed only to
\* sockets of a room that the sending socket has itself joined; a socket that
\* has joined no room, or another room, cannot cause an event to be delivered
\* into room R.
C35_RelayOnlyIntoOwnRoom ==
    \A s \in Conns, ev \in RelayEvents, R \in RoomIds :
        (relay.status[s] = "open" /\ R \notin relay.joined[s]) =>
            \A d \in Conns :
                relayEvent(relay, s, ev, [roomId |-> R, id |-> 1]).out[d] = <<>>

\* C36: in the legacy relay server, the disconnect of one socket removes that
\* socket's id from every room's connection set, deletes rooms whose set
\* became empty, and leaves the userRooms entries of every other
\* still-connected user unchanged.
C36_RelayDisconnectFrame ==
    \A s \in Conns : relay.status[s] = "open" =>
        \A after \in {relayDisconnect(relay, s).relay} :
            /\ \A R \in DOMAIN after.roomConnections : s \notin after.roomConnections[R]
            /\ \A R \in DOMAIN relay.roomConnections :
                   relay.roomConnections[R] = {s} => R \notin DOMAIN after.roomConnections
            /\ \A d \in Conns \ {s} :
                   (/\ relay.status[d] = "open"
                    /\ relay.session[d] # NULL
                    /\ relay.session[d] # relay.session[s]
                    /\ relay.session[d] \in DOMAIN relay.userRooms) =>
                       /\ relay.session[d] \in DOMAIN after.userRooms
                       /\ after.userRooms[relay.session[d]] = relay.userRooms[relay.session[d]]

\* ------------------------------------------------- the useWebSocket hook
\* The options the hook is mounted with.
WsRoomId == "r1"
WsUserId == "u1"

\* A socket the hook created is "connecting" until its first connect,
\* "connected", "reconnecting" after the transport was lost, and "closed"
\* after socket.disconnect(); only a connecting or reconnecting socket can
\* fire connect or connect_error.
Attempting == {s \in SocketIds : ws.sockets[s] \in {"connecting", "reconnecting"}}

Connected(h, ref) == ref # <<>> /\ h.sockets[ref[1]] = "connected"

\* connect(): a new socket replaces socketRef.current unless that one is
\* connected; the previous socket is left as it is.
connect(h, s) ==
    IF Connected(h, h.socketRef)
    THEN h
    ELSE [h EXCEPT !.state = [@ EXCEPT !.connecting = TRUE, !.error = <<>>],
                   !.sockets[s] = "connecting",
                   !.socketRef = <<s>>]

\* socket.on('connect') without the reset of the attempt counter.
onConnectNoReset(h, s) ==
    [ws |-> [h EXCEPT !.sockets[s] = "connected",
                      !.state = [@ EXCEPT !.connected = TRUE, !.connecting = FALSE,
                                          !.error = <<>>]],
     out |-> <<[ev |-> "join_room", body |-> [roomId |-> WsRoomId, userId |-> WsUserId]]>>]

\* socket.on('connect')
onConnect(h, s) ==
    [ws |-> [h EXCEPT !.sockets[s] = "connected",
                      !.reconnectAttempts = 0,
                      !.state = [@ EXCEPT !.connected = TRUE, !.connecting = FALSE,
                                          !.error = <<>>]],
     out |-> <<[ev |-> "join_room", body |-> [roomId |-> WsRoomId, userId |-> WsUserId]]>>]

\* socket.on('disconnect'): the transport was lost and the socket reconnects
\* by itself.
onDisconnect(h, s) ==
    [h EXCEPT !.sockets[s] = "reconnecting",
              !.state = [@ EXCEPT !.connected = FALSE, !.connecting = FALSE,
                                  !.error = <<"Disconnected">>]]

\* socket.on('connect_error')
onConnectError(h, s) ==
    LET attempts == h.reconnectAttempts + 1
    IN [h EXCEPT !.reconnectAttempts = attempts,
                 !.state = [@ EXCEPT !.connected = FALSE, !.connecting = FALSE,
                                     !.error = <<"connect_error">>],
                 !.sockets[s] = IF attempts >= maxReconnectAttempts THEN "closed" ELSE @]

\* disconnect(): closes socketRef.current, whose disconnect handler runs if
\* it was connected.
hookDisconnect(h) ==
    LET ref == h.socketRef
        h1 == IF ref = <<>>
              THEN h
              ELSE [h EXCEPT !.sockets[ref[1]] = "closed",
                             !.socketRef = <<>>,
                             !.state = IF Connected(h, ref)
                                       THEN [@ EXCEPT !.error = <<"Disconnected">>]
                                       ELSE @]
    IN [h1 EXCEPT !.state = [@ EXCEPT !.connected = FALSE, !.connecting = FALSE]]

notWs == <<serverVars, hookVars, relay, db>>

\* connect(), called by the mount effect or by the component.
WsConnect(s) ==
    /\ ws.sockets[s] = "none"
    /\ \A t \in SocketIds : t < s => ws.sockets[t] # "none"
    /\ ~Connected(ws, ws.socketRef)
    /\ ws' = connect(ws, s)
    /\ UNCHANGED notWs

WsOnConnect(s) ==
    /\ s \in Attempting
    /\ ws' = onConnect(ws, s).ws
    /\ UNCHANGED notWs

WsOnDisconnect(s) ==
    /\ ws.sockets[s] = "connected"
    /\ ws' = onDisconnect(ws, s)
    /\ UNCHANGED notWs

WsOnConnectError(s) ==
    /\ s \in Attempting
    /\ ws' = onConnectError(ws, s)
    /\ UNCHANGED notWs

WsDisconnect ==
    /\ ws' = hookDisconnect(ws)
    /\ UNCHANGED notWs

NextWs ==
    \/ \E s \in SocketIds : WsConnect(s)
    \/ \E s \in SocketIds : WsOnConnect(s)
    \/ \E s \in SocketIds : WsOnDisconnect(s)
    \/ \E s \in SocketIds : WsOnConnectError(s)
    \/ WsDisconnect

SpecWs == Init /\ [][NextWs]_vars

\* C37: in the client useWebSocket hook, every time the socket's connect
\* event fires (first connection or reconnection) the client emits exactly
\* one join_room carrying its roomId and userId and resets the
\* reconnect-attempt counter to 0.
C37_ConnectJoinsAndResets ==
    \A s \in Attempting :
        \A h \in {onConnect(ws, s)} :
            /\ Len(h.out) = 1
            /\ h.out[1].ev = "join_room"
            /\ h.out[1].body = [roomId |-> WsRoomId, userId |-> WsUserId]
            /\ h.ws.reconnectAttempts = 0

\* A socket that lost its connection and has failed to reconnect since.
C37_Witness ==
    \E s \in SocketIds : ws.sockets[s] = "reconnecting" /\ ws.reconnectAttempts > 0

\* C38: in the client useWebSocket hook, the reconnect-attempt counter never
\* exceeds 5: it increases by one per connect_error, and when it reaches 5
\* consecutive errors without an intervening successful connect the client
\* disconnects the socket and makes no further attempt.
C38_AttemptsBounded ==
    /\ ws.reconnectAttempts <= maxReconnectAttempts
    /\ \A s \in Attempting :
          \A h \in {onConnectError(ws, s)} :
              /\ h.reconnectAttempts = ws.reconnectAttempts + 1
              /\ h.reconnectAttempts >= maxReconnectAttempts => h.sockets[s] = "closed"

\* ------------------------------------------------ RoomService.joinRoom
\* A call runs from one await to the next: "idle" before the call, "room"
\* once the room row is read, "count" once the user is known not to be a
\* member, "insert" once the member count has passed the limit check, and
\* "joined" or "full" when it has returned or thrown.
notDb == <<serverVars, hookVars, relay, ws>>

\* A new call: select from rooms where invite_code = ...
FindRoom(u) ==
    /\ db.pc[u] \in {"idle", "joined", "full"}
    /\ db' = [db EXCEPT !.pc[u] = "room"]
    /\ UNCHANGED notDb

\* select from room_members where room_id = ... and user_id = ...
CheckExistingMember(u) ==
    /\ db.pc[u] = "room"
    /\ db' = [db EXCEPT !.pc[u] = IF u \in db.room_members THEN "joined" ELSE "count"]
    /\ UNCHANGED notDb

\* select count from room_members where room_id = ..., then the limit check.
CheckMemberLimit(u) ==
    /\ db.pc[u] = "count"
    /\ LET memberCount == Cardinality(db.room_members)
       IN db' = [db EXCEPT !.pc[u] = IF memberCount # 0 /\ memberCount >= MaxMembers
                                     THEN "full" ELSE "insert"]
    /\ UNCHANGED notDb

\* addMemberToRoom: insert into room_members.
AddMemberToRoom(u) ==
    /\ db.pc[u] = "insert"
    /\ db' = [db EXCEPT !.room_members = @ \cup {u}, !.pc[u] = "joined"]
    /\ UNCHANGED notDb

\* RoomService.leaveRoom: delete from room_members.
LeaveRoomRow(u) ==
    /\ db.pc[u] = "joined"
    /\ db' = [db EXCEPT !.room_members = @ \ {u}, !.pc[u] = "idle"]
    /\ UNCHANGED notDb

NextDb ==
    \/ \E u \in DbUsers : FindRoom(u)
    \/ \E u \in DbUsers : CheckExistingMember(u)
    \/ \E u \in DbUsers : CheckMemberLimit(u)
    \/ \E u \in DbUsers : AddMemberToRoom(u)
    \/ \E u \in DbUsers : LeaveRoomRow(u)

SpecDb == Init /\ [][NextDb]_vars

\* C39: under any interleaving of concurrent RoomService.joinRoom calls by
\* different users for the same room, the number of membership rows of the
\* room never exceeds the room's max_members; a join that would exceed it
\* fails with 'Room is full' and adds no row.
C39_MemberLimitHolds ==
    /\ Cardinality(db.room_members) <= MaxMembers
    /\ \A u \in DbUsers : db.pc[u] = "full" => u \notin db.room_members

====
